---- MODULE Spec2Model ----
(***************************************************************************)
(* A model of wapp: the two weather providers (OpenWeatherProvider,        *)
(* WeatherApiProvider), their from_env constructors, provider_factory,     *)
(* get_data, and the configure / get commands of the CLI with the          *)
(* config.json file they share.                                            *)
(*                                                                         *)
(* Strings the code only compares or copies (variable names, keys, kinds,  *)
(* provider names, the literal pieces of a URL) are TLA+ strings.  A URL   *)
(* is the sequence of its lexemes: the base URL, a path, the delimiters    *)
(* "?", "&", "=", parameter names and values.  A city is a sequence of     *)
(* Unicode code points; its percent-encoding is a sequence of one-         *)
(* character lexemes, computed byte by byte from its UTF-8 form.           *)
(***************************************************************************)
EXTENDS Integers, Sequences, FiniteSets, TLC

VARIABLES
    env,        \* the process environment: variable name -> Option<String>
    provider,   \* the handle provider_factory returned last (or NoProvider)
    made,       \* the outcome of the last provider_factory call
    call,       \* the arguments of the last get_data call on the handle, and
                \* whether the call before it on this handle was rejected
    pc,         \* "idle", or "awaiting" while get_data awaits the transport
    url,        \* the URL of the last HTTP GET get_data issued (<<>>: none)
    gets,       \* HTTP GETs issued by the last get_data call
    response,   \* what the transport did with that GET
    result,     \* what the last get_data call returned
    configFile, \* config.json: absent, or its content
    cli         \* the last CLI invocation: command, stdout, exit status

vars == <<env, provider, made, call, pc, url, gets, response, result, configFile, cli>>

(***************************************************************************)
(* Option<String>                                                          *)
(***************************************************************************)
None == [some |-> FALSE, v |-> ""]

Some(x) == [some |-> TRUE, v |-> x]

(***************************************************************************)
(* Bounds and input sets                                                   *)
(***************************************************************************)
MaxCityLen == 2

\* Code points the bounded cities are made of: space and a-tilde (U+00E3).
CityAlphabet == {32, 227}

RECURSIVE SeqsUpTo(_, _)
SeqsUpTo(S, n) ==
    IF n = 0 THEN {<<>>}
    ELSE LET shorter == SeqsUpTo(S, n - 1)
         IN  shorter \cup {Append(s, c) : s \in {t \in shorter : Len(t) = n - 1}, c \in S}

\* "a&b", "%20", the euro sign (3 UTF-8 bytes), an emoji (4 bytes), "x-_.~".
SampleCities ==
    { <<97, 38, 98>>, <<37, 50, 48>>, <<8364>>, <<128512>>, <<120, 45, 95, 46, 126>> }

Cities == SeqsUpTo(CityAlphabet, MaxCityLen) \cup SampleCities

ValidKinds == {"now", "forecast", "tomorrow"}

Kinds == ValidKinds \cup {"", "Now", "hourly"}

ProviderNames == {"weatherapi", "openweather", "unknown", "", "OpenWeather"}

EnvVars ==
    { "WEATHERAPI_KEY", "WEATHERAPI_BASE_URL", "WEATHERAPI_LANG",
      "OPENWEATHER_KEY", "OPENWEATHER_BASE_URL", "OPENWEATHER_UNITS", "OPENWEATHER_LANG" }

\* The value each variable has when it is set.
EnvValue ==
    [ WEATHERAPI_KEY       |-> "wkey",
      WEATHERAPI_BASE_URL  |-> "http://w.test/v1",
      WEATHERAPI_LANG      |-> "uk",
      OPENWEATHER_KEY      |-> "okey",
      OPENWEATHER_BASE_URL |-> "http://o.test/data",
      OPENWEATHER_UNITS    |-> "metric",
      OPENWEATHER_LANG     |-> "es" ]

OptionalVars(prefix) ==
    IF prefix = "WEATHERAPI" THEN {"WEATHERAPI_BASE_URL", "WEATHERAPI_LANG"}
    ELSE {"OPENWEATHER_BASE_URL", "OPENWEATHER_UNITS", "OPENWEATHER_LANG"}

\* The environments a run starts in: every combination of the two credentials
\* with every combination of one provider's optional variables.
Environments ==
    { [n \in EnvVars |-> IF n \in S THEN Some(EnvValue[n]) ELSE None] :
        S \in { T \in SUBSET EnvVars :
                  T \cap OptionalVars("WEATHERAPI") = {} \/ T \cap OptionalVars("OPENWEATHER") = {} } }

(***************************************************************************)
(* urlencoding::encode                                                     *)
(***************************************************************************)
\* Printable ASCII, 32..126, as one-character lexemes; the double quote, the
\* backslash and the backtick, which encode never leaves raw, are spelled out.
Ascii ==
    << " ", "!", "DQUOTE", "#", "$", "%", "&", "'", "(", ")", "*", "+", ",", "-", ".", "/",
       "0", "1", "2", "3", "4", "5", "6", "7", "8", "9", ":", ";", "<", "=", ">", "?",
       "@", "A", "B", "C", "D", "E", "F", "G", "H", "I", "J", "K", "L", "M", "N", "O",
       "P", "Q", "R", "S", "T", "U", "V", "W", "X", "Y", "Z", "[", "BSLASH", "]", "^", "_",
       "BTICK", "a", "b", "c", "d", "e", "f", "g", "h", "i", "j", "k", "l", "m", "n", "o",
       "p", "q", "r", "s", "t", "u", "v", "w", "x", "y", "z", "{", "|", "}", "~" >>

Chr(b) == Ascii[b - 31]

HexDigits == <<"0", "1", "2", "3", "4", "5", "6", "7", "8", "9", "A", "B", "C", "D", "E", "F">>

\* The UTF-8 bytes of one code point (a Rust String holds UTF-8).
Utf8(cp) ==
    IF cp < 128 THEN <<cp>>
    ELSE IF cp < 2048 THEN <<192 + (cp \div 64), 128 + (cp % 64)>>
    ELSE IF cp < 65536 THEN
        <<224 + (cp \div 4096), 128 + ((cp \div 64) % 64), 128 + (cp % 64)>>
    ELSE
        << 240 + (cp \div 262144), 128 + ((cp \div 4096) % 64),
           128 + ((cp \div 64) % 64), 128 + (cp % 64) >>

RECURSIVE Utf8Bytes(_)
Utf8Bytes(s) == IF s = <<>> THEN <<>> ELSE Utf8(Head(s)) \o Utf8Bytes(Tail(s))

\* Bytes urlencoding leaves as they are: ASCII letters, digits, - . _ ~
IsUnreserved(b) ==
    \/ b \in 48..57
    \/ b \in 65..90
    \/ b \in 97..122
    \/ b \in {45, 46, 95, 126}

EncodeByte(b) ==
    IF IsUnreserved(b) THEN <<Chr(b)>>
    ELSE <<"%", HexDigits[(b \div 16) + 1], HexDigits[(b % 16) + 1]>>

RECURSIVE EncodeBytes(_)
EncodeBytes(bs) == IF bs = <<>> THEN <<>> ELSE EncodeByte(Head(bs)) \o EncodeBytes(Tail(bs))

\* encode as form encoding would do it: a space becomes "+".
RECURSIVE FormEncodeBytes(_)
FormEncodeBytes(bs) ==
    IF bs = <<>> THEN <<>>
    ELSE (IF Head(bs) = 32 THEN <<"+">> ELSE EncodeByte(Head(bs))) \o FormEncodeBytes(Tail(bs))

encodeForm(city) == FormEncodeBytes(Utf8Bytes(city))

encode(city) == EncodeBytes(Utf8Bytes(city))

(***************************************************************************)
(* The providers                                                           *)
(***************************************************************************)
NoProvider == [type |-> "none"]

OPENWEATHER_DEFAULT_BASE_URL == "https://api.openweathermap.org/data/3.0"

WEATHERAPI_DEFAULT_BASE_URL == "https://api.weatherapi.com/v1"

\* std::env::var(name): Ok(value) when the variable is set, Err otherwise
\* (the environment holds Unicode strings: key -> optional string).
EnvVar(e, name) == e[name]

\* Option::unwrap_or / Result::unwrap_or
UnwrapOr(opt, default) == IF opt.some THEN opt.v ELSE default

\* A Result: Ok(value), or Err with the message and the string it carries.
Ok(x) == [ok |-> TRUE, value |-> x, err |-> "", arg |-> ""]

Err(msg, a) == [ok |-> FALSE, value |-> NoProvider, err |-> msg, arg |-> a]

\* from_env with `?` on the units variable too.
OpenWeatherFromEnvStrict(e) ==
    IF ~EnvVar(e, "OPENWEATHER_KEY").some \/ ~EnvVar(e, "OPENWEATHER_UNITS").some
    THEN Err("environment variable not found", "")
    ELSE Ok([ type     |-> "openweather",
              api_key  |-> EnvVar(e, "OPENWEATHER_KEY").v,
              base_url |-> UnwrapOr(EnvVar(e, "OPENWEATHER_BASE_URL"), OPENWEATHER_DEFAULT_BASE_URL),
              units    |-> EnvVar(e, "OPENWEATHER_UNITS"),
              lang     |-> EnvVar(e, "OPENWEATHER_LANG") ])

\* OpenWeatherProvider::from_env
OpenWeatherFromEnv(e) ==
    IF ~EnvVar(e, "OPENWEATHER_KEY").some
    THEN Err("environment variable not found", "")
    ELSE Ok([ type     |-> "openweather",
              api_key  |-> EnvVar(e, "OPENWEATHER_KEY").v,
              base_url |-> UnwrapOr(EnvVar(e, "OPENWEATHER_BASE_URL"), OPENWEATHER_DEFAULT_BASE_URL),
              units    |-> EnvVar(e, "OPENWEATHER_UNITS"),
              lang     |-> EnvVar(e, "OPENWEATHER_LANG") ])

\* WeatherApiProvider::from_env
WeatherApiFromEnv(e) ==
    IF ~EnvVar(e, "WEATHERAPI_KEY").some
    THEN Err("environment variable not found", "")
    ELSE Ok([ type     |-> "weatherapi",
              api_key  |-> EnvVar(e, "WEATHERAPI_KEY").v,
              base_url |-> UnwrapOr(EnvVar(e, "WEATHERAPI_BASE_URL"), WEATHERAPI_DEFAULT_BASE_URL),
              lang     |-> EnvVar(e, "WEATHERAPI_LANG") ])

\* provider_factory with a default arm that builds a provider.
provider_factoryFallback(cfg, e) ==
    IF cfg.provider = "openweather" THEN OpenWeatherFromEnv(e) ELSE WeatherApiFromEnv(e)

\* provider_factory(cfg): the match on cfg.provider
provider_factory(cfg, e) ==
    IF cfg.provider = "weatherapi" THEN WeatherApiFromEnv(e)
    ELSE IF cfg.provider = "openweather" THEN OpenWeatherFromEnv(e)
    ELSE Err("Unsupported provider", cfg.provider)

(***************************************************************************)
(* Request construction                                                    *)
(***************************************************************************)
\* push_str of the parameter whether or not the option holds a value.
PushOptDefault(u, name, opt) == u \o <<"&", name, "=", opt.v>>

\* if let Some(x) = opt { url.push_str("&name="); url.push_str(x) }
PushOpt(u, name, opt) == IF opt.some THEN u \o <<"&", name, "=", opt.v>> ELSE u

\* A URL built, or the error returned before any request.
Built(u) == [ok |-> TRUE, url |-> u, err |-> "", arg |-> ""]

NotBuilt(msg, a) == [ok |-> FALSE, url |-> <<>>, err |-> msg, arg |-> a]

\* OpenWeatherProvider::get_data with a day count for "tomorrow".
OpenWeatherUrlCnt(self, city, kind) ==
    LET c    == encode(city)
        path == IF kind = "now" THEN "/weather" ELSE "/forecast"
        cnt  == IF kind = "tomorrow" THEN <<"&", "cnt", "=", "8">> ELSE <<>>
    IN  IF kind \in {"now", "forecast", "tomorrow"} THEN
            Built(PushOpt(PushOpt(
                <<self.base_url, path, "?", "q", "=">> \o c
                    \o <<"&", "appid", "=", self.api_key>> \o cnt,
                "units", self.units), "lang", self.lang))
        ELSE NotBuilt("Unknown data type", kind)

\* OpenWeatherProvider::get_data with a default arm that requests the forecast.
OpenWeatherUrlLenient(self, city, kind) ==
    LET c    == encode(city)
        path == IF kind = "now" THEN "/weather" ELSE "/forecast"
    IN  Built(PushOpt(PushOpt(
            <<self.base_url, path, "?", "q", "=">> \o c
                \o <<"&", "appid", "=", self.api_key>>,
            "units", self.units), "lang", self.lang))

\* The match of OpenWeatherProvider::get_data
OpenWeatherUrl(self, city, kind) ==
    LET c == encode(city)
    IN  IF kind = "now" THEN
            Built(PushOpt(PushOpt(
                <<self.base_url, "/weather", "?", "q", "=">> \o c
                    \o <<"&", "appid", "=", self.api_key>>,
                "units", self.units), "lang", self.lang))
        ELSE IF kind \in {"forecast", "tomorrow"} THEN
            Built(PushOpt(PushOpt(
                <<self.base_url, "/forecast", "?", "q", "=">> \o c
                    \o <<"&", "appid", "=", self.api_key>>,
                "units", self.units), "lang", self.lang))
        ELSE NotBuilt("Unknown data type", kind)

\* WeatherApiProvider::get_data with "now" sent to the forecast endpoint.
WeatherApiUrlNowForecast(self, city, kind) ==
    LET c == encode(city)
    IN  IF kind = "now" THEN
            Built(PushOpt(
                <<self.base_url, "/forecast.json", "?", "key", "=", self.api_key,
                  "&", "q", "=">> \o c,
                "lang", self.lang))
        ELSE IF kind \in {"forecast", "tomorrow"} THEN
            LET days == IF kind = "tomorrow" THEN "1" ELSE "3"
            IN  Built(PushOpt(
                    <<self.base_url, "/forecast.json", "?", "key", "=", self.api_key,
                      "&", "q", "=">> \o c \o <<"&", "days", "=", days>>,
                    "lang", self.lang))
        ELSE NotBuilt("Unknown data type", kind)

\* WeatherApiProvider::get_data with the day count of "forecast" for both kinds.
WeatherApiUrlThreeDays(self, city, kind) ==
    LET c == encode(city)
    IN  IF kind = "now" THEN
            Built(PushOpt(
                <<self.base_url, "/current.json", "?", "key", "=", self.api_key,
                  "&", "q", "=">> \o c,
                "lang", self.lang))
        ELSE IF kind \in {"forecast", "tomorrow"} THEN
            Built(PushOpt(
                <<self.base_url, "/forecast.json", "?", "key", "=", self.api_key,
                  "&", "q", "=">> \o c \o <<"&", "days", "=", "3">>,
                "lang", self.lang))
        ELSE NotBuilt("Unknown data type", kind)

\* The match of WeatherApiProvider::get_data
WeatherApiUrl(self, city, kind) ==
    LET c == encode(city)
    IN  IF kind = "now" THEN
            Built(PushOpt(
                <<self.base_url, "/current.json", "?", "key", "=", self.api_key,
                  "&", "q", "=">> \o c,
                "lang", self.lang))
        ELSE IF kind \in {"forecast", "tomorrow"} THEN
            LET days == IF kind = "tomorrow" THEN "1" ELSE "3"
            IN  Built(PushOpt(
                    <<self.base_url, "/forecast.json", "?", "key", "=", self.api_key,
                      "&", "q", "=">> \o c \o <<"&", "days", "=", days>>,
                    "lang", self.lang))
        ELSE NotBuilt("Unknown data type", kind)

\* get_data reading the provider's variables again when the request is built.
BuildUrlLiveEnv(self, city, kind) ==
    LET fresh == IF self.type = "openweather" THEN OpenWeatherFromEnv(env) ELSE WeatherApiFromEnv(env)
        p     == IF fresh.ok THEN fresh.value ELSE self
    IN  IF p.type = "openweather" THEN OpenWeatherUrl(p, city, kind)
        ELSE WeatherApiUrl(p, city, kind)

\* Dispatch of ApiProvider::get_data through Box<dyn ApiProvider>
BuildUrl(self, city, kind) ==
    IF self.type = "openweather" THEN OpenWeatherUrl(self, city, kind)
    ELSE WeatherApiUrl(self, city, kind)

(***************************************************************************)
(* The HTTP transport and the result of get_data                           *)
(***************************************************************************)
NoResponse == [kind |-> "none", status |-> 0, body |-> ""]

\* What reqwest can do with one GET: answer with a status and a body (any
\* status: the code never calls error_for_status), fail to send, or fail
\* while the body is read.
TransportOutcomes ==
    { [kind |-> "body", status |-> 200, body |-> "{weather}"],
      [kind |-> "body", status |-> 404, body |-> "{error}"],
      [kind |-> "request failed", status |-> 0, body |-> ""],
      [kind |-> "body read failed", status |-> 500, body |-> ""] }

NoResult == [state |-> "none", body |-> "", err |-> "", arg |-> ""]

Pending == [state |-> "pending", body |-> "", err |-> "", arg |-> ""]

FetchOk(body) == [state |-> "ok", body |-> body, err |-> "", arg |-> ""]

FetchErr(msg, a) == [state |-> "err", body |-> "", err |-> msg, arg |-> a]

\* Ok(reqwest::get(url).await?.text().await?)
HttpResult(o) ==
    IF o.kind = "body" THEN FetchOk(o.body) ELSE FetchErr("reqwest", o.kind)

\* get_data sending the GET once more after a failure.
SettleRetry(o, g) ==
    IF o.kind # "body" /\ g < 2
    THEN [pc |-> "awaiting", gets |-> g + 1, result |-> Pending]
    ELSE [pc |-> "idle", gets |-> g, result |-> HttpResult(o)]

\* get_data once the transport has answered its GET (g GETs issued so far):
\* the `?` operators return the error to the caller, nothing is sent again.
Settle(o, g) == [pc |-> "idle", gets |-> g, result |-> HttpResult(o)]

(***************************************************************************)
(* config.json                                                             *)
(***************************************************************************)
AbsentFile == [exists |-> FALSE, content |-> <<>>]

File(c) == [exists |-> TRUE, content |-> c]

\* serde_json::to_string_pretty(&AppConfig): { "provider": "<name>" }
ToJson(cfg) == <<"{", "provider", ":", cfg.provider, "}">>

\* serde_json::from_str::<AppConfig>
FromJson(c) ==
    IF Len(c) = Len(ToJson([provider |-> ""])) /\ c[1] = "{" /\ c[2] = "provider" /\ c[3] = ":" /\ c[5] = "}"
    THEN [ok |-> TRUE, cfg |-> [provider |-> c[4]], err |-> ""]
    ELSE [ok |-> FALSE, cfg |-> [provider |-> ""], err |-> "malformed json"]

\* std::fs::write either writes the whole content, or fails before the file
\* is opened (the file stays as it was), or fails after the file was created
\* or truncated (it is left empty).
WriteOutcomes == {"written", "not opened", "truncated"}

FsWrite(file, content, how) ==
    IF how = "written" THEN [ok |-> TRUE, file |-> File(content)]
    ELSE IF how = "not opened" THEN [ok |-> FALSE, file |-> file]
    ELSE [ok |-> FALSE, file |-> File(<<>>)]

\* save_config(cfg)
save_config(cfg, file, how) == FsWrite(file, ToJson(cfg), how)

\* load_config()
load_config(file) ==
    IF ~file.exists
    THEN [ok |-> FALSE, cfg |-> [provider |-> ""], err |-> "config.json not found"]
    ELSE FromJson(file.content)

(***************************************************************************)
(* The CLI                                                                 *)
(***************************************************************************)
\* SUPPORTED_PROVIDERS with a name provider_factory has no arm for.
SUPPORTED_PROVIDERS_Extra == <<"weatherapi", "openweather", "unknown">>

SUPPORTED_PROVIDERS == <<"weatherapi", "openweather">>

Contains(s, x) == \E i \in 1..Len(s) : s[i] = x

NoCli == [cmd |-> "none", arg |-> "", stdout |-> "", stderr |-> "", exit |-> 0, before |-> AbsentFile]

\* Commands::Configure { provider }: the new file and what the process reports.
CliConfigure(name, file, how) ==
    IF ~Contains(SUPPORTED_PROVIDERS, name)
    THEN [file |-> file,
          cli  |-> [cmd |-> "configure", arg |-> name, stdout |-> "",
                    stderr |-> "provider is not supported", exit |-> 1, before |-> file]]
    ELSE [file |-> save_config([provider |-> name], file, how).file,
          cli  |-> [cmd |-> "configure", arg |-> name, stdout |-> "Provider saved",
                    stderr |-> "", exit |-> 0, before |-> file]]

CliFailure(data, msg, file) ==
    [cmd |-> "get", arg |-> data, stdout |-> "", stderr |-> msg, exit |-> 1, before |-> file]

\* Commands::Get { city, data }: the URL requested (<<>>: none) and what the
\* process reports; main turns an Err into exit status 1.
CliGet(city, data, file, e, o) ==
    IF ~city.some THEN [url |-> <<>>, cli |-> CliFailure(data, "city is required", file)]
    ELSE LET loaded == load_config(file)
         IN  IF ~loaded.ok THEN [url |-> <<>>, cli |-> CliFailure(data, loaded.err, file)]
             ELSE LET p == provider_factory(loaded.cfg, e)
                  IN  IF ~p.ok THEN [url |-> <<>>, cli |-> CliFailure(data, p.err, file)]
                      ELSE LET b == BuildUrl(p.value, city.v, data)
                           IN  IF ~b.ok THEN [url |-> <<>>, cli |-> CliFailure(data, b.err, file)]
                               ELSE LET r == HttpResult(o)
                                    IN  IF r.state = "err"
                                        THEN [url |-> b.url, cli |-> CliFailure(data, r.err, file)]
                                        ELSE [url |-> b.url,
                                              cli |-> [cmd |-> "get", arg |-> data, stdout |-> r.body,
                                                       stderr |-> "", exit |-> 0, before |-> file]]

(***************************************************************************)
(* The library: provider_factory and get_data on the handle it returned    *)
(***************************************************************************)
NoCall == [city |-> <<>>, kind |-> "none", afterRejected |-> FALSE]

NotMade == [called |-> FALSE, name |-> "", ok |-> FALSE, err |-> "", arg |-> ""]

Init ==
    /\ env \in Environments
    /\ provider = NoProvider
    /\ made = NotMade
    /\ call = NoCall
    /\ pc = "idle"
    /\ url = <<>>
    /\ gets = 0
    /\ response = NoResponse
    /\ result = NoResult
    /\ configFile = AbsentFile
    /\ cli = NoCli

\* let provider = provider_factory(&AppConfig { provider: name })
ProviderFactory(name) ==
    /\ pc = "idle"
    /\ LET r == provider_factory([provider |-> name], env)
       IN  /\ made' = [called |-> TRUE, name |-> name, ok |-> r.ok, err |-> r.err, arg |-> r.arg]
           /\ provider' = r.value
    /\ call' = NoCall
    /\ url' = <<>>
    /\ gets' = 0
    /\ response' = NoResponse
    /\ result' = NoResult
    /\ UNCHANGED <<env, pc, configFile, cli>>

\* provider.get_data(city, kind), up to the await of the HTTP GET
GetData(city, kind) ==
    /\ pc = "idle"
    /\ provider # NoProvider
    /\ call' = [city |-> city, kind |-> kind,
                afterRejected |-> (result.state = "err" /\ result.err = "Unknown data type")]
    /\ response' = NoResponse
    /\ LET b == BuildUrl(provider, city, kind)
       IN  IF b.ok
           THEN /\ url' = b.url
                /\ gets' = 1
                /\ pc' = "awaiting"
                /\ result' = Pending
           ELSE /\ url' = <<>>
                /\ gets' = 0
                /\ pc' = "idle"
                /\ result' = FetchErr(b.err, b.arg)
    /\ UNCHANGED <<env, provider, made, configFile, cli>>

\* The transport answers the GET and get_data returns.
Transport(o) ==
    /\ pc = "awaiting"
    /\ response' = o
    /\ LET s == Settle(o, gets)
       IN  /\ pc' = s.pc
           /\ gets' = s.gets
           /\ result' = s.result
    /\ UNCHANGED <<env, provider, made, call, url, configFile, cli>>

Next ==
    \/ \E name \in ProviderNames : ProviderFactory(name)
    \/ \E city \in Cities, kind \in Kinds : GetData(city, kind)
    \/ \E o \in TransportOutcomes : Transport(o)

Spec == Init /\ [][Next]_vars

(***************************************************************************)
(* The command line: wapp configure <provider>, wapp get --city --data     *)
(***************************************************************************)
\* "Kyiv" and "New York"
CliCities == { <<75, 121, 105, 118>>, <<78, 101, 119, 32, 89, 111, 114, 107>> }

CliEnvironments ==
    { e \in Environments : \A n \in EnvVars : e[n].some => n \in {"WEATHERAPI_KEY", "OPENWEATHER_KEY"} }

InitCli ==
    /\ env \in CliEnvironments
    /\ provider = NoProvider
    /\ made = NotMade
    /\ call = NoCall
    /\ pc = "idle"
    /\ url = <<>>
    /\ gets = 0
    /\ response = NoResponse
    /\ result = NoResult
    /\ configFile = AbsentFile
    /\ cli = NoCli

\* wapp configure <name>
Configure(name, how) ==
    /\ LET c == CliConfigure(name, configFile, how)
       IN  /\ configFile' = c.file
           /\ cli' = c.cli
    /\ url' = <<>>
    /\ UNCHANGED <<env, provider, made, call, pc, gets, response, result>>

\* wapp get [--city <city>] [--data <data>]
Get(city, data, o) ==
    /\ LET g == CliGet(city, data, configFile, env, o)
       IN  /\ url' = g.url
           /\ cli' = g.cli
    /\ UNCHANGED <<env, provider, made, call, pc, gets, response, result, configFile>>

\* save_config(&AppConfig { provider: name }) called directly, as the tests do
SaveConfig(name, how) ==
    /\ configFile' = save_config([provider |-> name], configFile, how).file
    /\ cli' = NoCli
    /\ url' = <<>>
    /\ UNCHANGED <<env, provider, made, call, pc, gets, response, result>>

\* fs::remove_file("config.json")
RemoveConfig ==
    /\ configFile.exists
    /\ configFile' = AbsentFile
    /\ cli' = NoCli
    /\ url' = <<>>
    /\ UNCHANGED <<env, provider, made, call, pc, gets, response, result>>

NextCli ==
    \/ \E name \in ProviderNames, how \in WriteOutcomes : Configure(name, how)
    \/ \E city \in {None} \cup {Some(c) : c \in CliCities}, data \in Kinds, o \in TransportOutcomes :
          Get(city, data, o)
    \/ \E name \in ProviderNames, how \in WriteOutcomes : SaveConfig(name, how)
    \/ RemoveConfig

SpecCli == InitCli /\ [][NextCli]_vars

(***************************************************************************)
(* Reading a URL back: its path and its query parameters                   *)
(***************************************************************************)
\* The index of the first occurrence of lexeme d in u, or Len(u) + 1.
IndexOf(u, d) ==
    IF \E i \in 1..Len(u) : u[i] = d
    THEN CHOOSE i \in 1..Len(u) : u[i] = d /\ \A j \in 1..(i - 1) : u[j] # d
    ELSE Len(u) + 1

\* u split at every occurrence of d.
RECURSIVE SplitOn(_, _)
SplitOn(u, d) ==
    LET i == IndexOf(u, d)
    IN  IF i > Len(u) THEN <<u>>
        ELSE <<SubSeq(u, 1, i - 1)>> \o SplitOn(SubSeq(u, i + 1, Len(u)), d)

\* What precedes the first "?": the base URL and the endpoint path.
UrlPath(u) == SubSeq(u, 1, IndexOf(u, "?") - 1)

\* The query parameters in order, each split at its first "=".
UrlParams(u) ==
    LET q     == SubSeq(u, IndexOf(u, "?") + 1, Len(u))
        parts == SplitOn(q, "&")
    IN  [ i \in 1..Len(parts) |->
            LET eq == IndexOf(parts[i], "=")
            IN  [ name  |-> SubSeq(parts[i], 1, eq - 1),
                  value |-> SubSeq(parts[i], eq + 1, Len(parts[i])) ] ]

Param(name, value) == [name |-> <<name>>, value |-> value]

OptParam(name, opt) == IF opt.some THEN <<Param(name, <<opt.v>>)>> ELSE <<>>

ParamNames(u) == { UrlParams(u)[i].name : i \in 1..Len(UrlParams(u)) }

\* A get_data call on the handle has issued its HTTP GET.
Requested == url # <<>>

\* C1: the request kind alone selects the endpoint path after the base URL.
\* openweather: now -> /weather, forecast and tomorrow -> /forecast, each with
\* q=<encoded city>, appid=<key>, then the optional units and lang.  weatherapi:
\* now -> /current.json with key, q, optional lang and no days; forecast and
\* tomorrow -> /forecast.json with a days parameter; never a units parameter.
C1_EndpointAndQuery ==
    Requested =>
        /\ call.kind \in ValidKinds
        /\ provider.type = "openweather" =>
            /\ UrlPath(url) =
                 <<provider.base_url, IF call.kind = "now" THEN "/weather" ELSE "/forecast">>
            /\ UrlParams(url) =
                 <<Param("q", encode(call.city)), Param("appid", <<provider.api_key>>)>>
                    \o OptParam("units", provider.units) \o OptParam("lang", provider.lang)
        /\ provider.type = "weatherapi" =>
            /\ UrlPath(url) =
                 <<provider.base_url,
                   IF call.kind = "now" THEN "/current.json" ELSE "/forecast.json">>
            /\ <<"units">> \notin ParamNames(url)
            /\ (<<"days">> \in ParamNames(url)) <=> (call.kind # "now")
            /\ LET ps == UrlParams(url)
                   rest == IF call.kind = "now" THEN 3 ELSE 4
               IN  /\ ps[1] = Param("key", <<provider.api_key>>)
                   /\ ps[2] = Param("q", encode(call.city))
                   /\ call.kind # "now" => ps[3].name = <<"days">>
                   /\ SubSeq(ps, rest, Len(ps)) = OptParam("lang", provider.lang)

C1_Witness ==
    /\ Requested
    /\ provider.type = "weatherapi"
    /\ call.kind = "forecast"
    /\ provider.lang.some
    /\ call.city = <<97, 38, 98>>
    /\ Len(UrlParams(url)) = 4

\* C2: on openweather, forecast and tomorrow with the same city and stored
\* config request exactly the same URL.
C2_ForecastTomorrowSameUrl ==
    (Requested /\ provider.type = "openweather" /\ call.kind \in {"forecast", "tomorrow"}) =>
        LET other == IF call.kind = "forecast" THEN "tomorrow" ELSE "forecast"
        IN  /\ BuildUrl(provider, call.city, other).ok
            /\ url = BuildUrl(provider, call.city, other).url

C2_Witness ==
    /\ Requested
    /\ provider.type = "openweather"
    /\ call.kind = "tomorrow"
    /\ provider.units.some
    /\ ~provider.lang.some
    /\ url = BuildUrl(provider, call.city, "forecast").url

\* The positions at which two URLs of the same length differ.
DiffPositions(u, w) == { i \in 1..Len(u) : u[i] # w[i] }

\* C3: on weatherapi, tomorrow requests days=1 and forecast requests days=3,
\* and the two URLs for the same city and config differ only in that value.
C3_DaysOnlyDifference ==
    (Requested /\ provider.type = "weatherapi" /\ call.kind \in {"forecast", "tomorrow"}) =>
        LET other == IF call.kind = "forecast" THEN "tomorrow" ELSE "forecast"
            w     == BuildUrl(provider, call.city, other).url
            mine  == IF call.kind = "tomorrow" THEN "1" ELSE "3"
            yours == IF call.kind = "tomorrow" THEN "3" ELSE "1"
        IN  /\ Param("days", <<mine>>) \in { UrlParams(url)[i] : i \in 1..Len(UrlParams(url)) }
            /\ Param("days", <<yours>>) \in { UrlParams(w)[i] : i \in 1..Len(UrlParams(w)) }
            /\ Len(url) = Len(w)
            /\ \E i \in 3..Len(url) :
                  /\ DiffPositions(url, w) = {i}
                  /\ url[i - 2] = "days" /\ url[i - 1] = "=" /\ url[i] = mine /\ w[i] = yours

C3_Witness ==
    /\ Requested
    /\ provider.type = "weatherapi"
    /\ call.kind = "tomorrow"
    /\ provider.lang.some
    /\ Param("days", <<"1">>) \in { UrlParams(url)[i] : i \in 1..Len(UrlParams(url)) }

\* C4: for both providers every kind other than exactly now, forecast or
\* tomorrow makes get_data return an error carrying that kind, with no HTTP
\* request, on a handle whose construction succeeded; and a valid fetch that
\* follows a rejected one on the same handle still builds and sends its request.
C4_UnsupportedKind ==
    /\ (call.kind # "none" /\ call.kind \notin ValidKinds) =>
          /\ result = FetchErr("Unknown data type", call.kind)
          /\ gets = 0 /\ ~Requested /\ response = NoResponse /\ pc = "idle"
          /\ made.ok /\ provider # NoProvider
    /\ (result.state = "err" /\ result.err = "Unknown data type") => call.kind \notin ValidKinds
    /\ (call.afterRejected /\ call.kind \in ValidKinds) =>
          /\ Requested /\ gets = 1
          /\ url = BuildUrl(provider, call.city, call.kind).url
          /\ provider = provider_factory([provider |-> made.name], env).value

C4_Witness ==
    /\ call.afterRejected
    /\ call.kind = "now"
    /\ result.state = "ok"
    /\ provider.type = "openweather"

\* C5: a configured name that is not exactly weatherapi or openweather makes
\* provider_factory fail with an error carrying that name, whatever the
\* environment holds, and no provider is constructed.
C5_UnsupportedProvider ==
    (made.called /\ made.name \notin {"weatherapi", "openweather"}) =>
        /\ ~made.ok
        /\ made.err = "Unsupported provider"
        /\ made.arg = made.name
        /\ provider = NoProvider

C5_Witness ==
    /\ made.called
    /\ made.name = "OpenWeather"
    /\ env["WEATHERAPI_KEY"].some
    /\ env["OPENWEATHER_KEY"].some
    /\ ~made.ok

\* The credential variable of a supported provider name.
CredentialVar(name) == IF name = "weatherapi" THEN "WEATHERAPI_KEY" ELSE "OPENWEATHER_KEY"

\* C6: for a supported name provider_factory succeeds, with a handle of that
\* provider, exactly when the provider's own credential variable is set,
\* whatever the other variables hold; when it is absent the constructor's
\* missing-variable error is returned and there is no handle.
C6_CredentialDecides ==
    (made.called /\ made.name \in {"weatherapi", "openweather"}) =>
        /\ made.ok <=> env[CredentialVar(made.name)].some
        /\ made.ok =>
              /\ provider.type = made.name
              /\ provider.api_key = env[CredentialVar(made.name)].v
        /\ ~made.ok =>
              /\ provider = NoProvider
              /\ made.err = "environment variable not found"
              /\ made.err = (IF made.name = "weatherapi"
                             THEN WeatherApiFromEnv(env) ELSE OpenWeatherFromEnv(env)).err

C6_Witness ==
    /\ made.called
    /\ made.name = "openweather"
    /\ made.ok
    /\ ~env["WEATHERAPI_KEY"].some
    /\ ~env["OPENWEATHER_UNITS"].some
    /\ provider.type = "openweather"

\* The value of the query parameter called name, or None.
ParamValue(u, name) ==
    LET ps == UrlParams(u)
    IN  IF \E i \in 1..Len(ps) : ps[i].name = <<name>>
        THEN [some |-> TRUE, v |-> ps[CHOOSE i \in 1..Len(ps) : ps[i].name = <<name>>].value]
        ELSE [some |-> FALSE, v |-> <<>>]

\* The query parameter called name is in the URL exactly when the variable is
\* set, with the variable's value.
MirrorsVar(u, name, var) ==
    /\ ParamValue(u, name).some <=> env[var].some
    /\ env[var].some => ParamValue(u, name).v = <<env[var].v>>

\* C7: an absent base-URL variable is replaced by the provider's default base
\* URL (a present one is used), while an absent units or lang variable leaves
\* its query parameter out of every request URL, which carries the parameter
\* exactly when the variable was set.
C7_DefaultVersusOmitted ==
    Requested =>
        /\ provider.type = "openweather" =>
              /\ UrlPath(url)[1] = (IF env["OPENWEATHER_BASE_URL"].some
                                    THEN env["OPENWEATHER_BASE_URL"].v
                                    ELSE OPENWEATHER_DEFAULT_BASE_URL)
              /\ MirrorsVar(url, "units", "OPENWEATHER_UNITS")
              /\ MirrorsVar(url, "lang", "OPENWEATHER_LANG")
        /\ provider.type = "weatherapi" =>
              /\ UrlPath(url)[1] = (IF env["WEATHERAPI_BASE_URL"].some
                                    THEN env["WEATHERAPI_BASE_URL"].v
                                    ELSE WEATHERAPI_DEFAULT_BASE_URL)
              /\ MirrorsVar(url, "lang", "WEATHERAPI_LANG")

C7_Witness ==
    /\ Requested
    /\ provider.type = "openweather"
    /\ ~env["OPENWEATHER_BASE_URL"].some
    /\ ~env["OPENWEATHER_UNITS"].some
    /\ env["OPENWEATHER_LANG"].some
    /\ url[1] = OPENWEATHER_DEFAULT_BASE_URL
    /\ ParamNames(url) = {<<"q">>, <<"appid">>, <<"lang">>}

(***************************************************************************)
(* Percent-decoding, to read an encoded city back                          *)
(***************************************************************************)
IsHex(t) == \E i \in 1..16 : HexDigits[i] = t

HexVal(t) == (CHOOSE i \in 1..16 : HexDigits[i] = t) - 1

\* The byte of a one-character lexeme (-1 for a lexeme that is no character).
Ord(t) == IF \E i \in 1..Len(Ascii) : Ascii[i] = t
          THEN 31 + (CHOOSE i \in 1..Len(Ascii) : Ascii[i] = t)
          ELSE -1

\* Every lexeme is an unreserved character or part of a %XX triplet.
RECURSIVE WellEncoded(_)
WellEncoded(ts) ==
    IF ts = <<>> THEN TRUE
    ELSE IF Head(ts) = "%"
         THEN Len(ts) >= 3 /\ IsHex(ts[2]) /\ IsHex(ts[3]) /\ WellEncoded(SubSeq(ts, 4, Len(ts)))
         ELSE IsUnreserved(Ord(Head(ts))) /\ WellEncoded(Tail(ts))

RECURSIVE PercentDecode(_)
PercentDecode(ts) ==
    IF ts = <<>> THEN <<>>
    ELSE IF Head(ts) = "%" /\ Len(ts) >= 3 /\ IsHex(ts[2]) /\ IsHex(ts[3])
         THEN <<16 * HexVal(ts[2]) + HexVal(ts[3])>> \o PercentDecode(SubSeq(ts, 4, Len(ts)))
         ELSE <<Ord(Head(ts))>> \o PercentDecode(Tail(ts))

\* The code points of a UTF-8 byte sequence (<<-1>> where it is not UTF-8).
RECURSIVE Utf8Decode(_)
Utf8Decode(bs) ==
    IF bs = <<>> THEN <<>>
    ELSE LET b == Head(bs)
             n == IF b < 0 THEN 0 ELSE IF b < 128 THEN 1 ELSE IF b < 192 THEN 0
                  ELSE IF b < 224 THEN 2 ELSE IF b < 240 THEN 3 ELSE IF b < 248 THEN 4 ELSE 0
         IN  IF n = 0 \/ Len(bs) < n \/ \E i \in 2..n : bs[i] \notin 128..191
             THEN <<-1>>
             ELSE LET lead == IF n = 1 THEN b ELSE IF n = 2 THEN b - 192
                              ELSE IF n = 3 THEN b - 224 ELSE b - 240
                      cp   == IF n = 1 THEN lead
                              ELSE IF n = 2 THEN lead * 64 + (bs[2] - 128)
                              ELSE IF n = 3 THEN (lead * 64 + (bs[2] - 128)) * 64 + (bs[3] - 128)
                              ELSE ((lead * 64 + (bs[2] - 128)) * 64 + (bs[3] - 128)) * 64
                                       + (bs[4] - 128)
                  IN  <<cp>> \o Utf8Decode(SubSeq(bs, n + 1, Len(bs)))

\* C8: for both providers and every city, the q segment of the request URL is
\* percent-encoded (no raw space or reserved character of the city reaches
\* the URL) and percent-decoding it recovers the city exactly.
C8_CityEncodedRoundTrip ==
    Requested =>
        LET q == ParamValue(url, "q")
        IN  /\ q.some
            /\ WellEncoded(q.v)
            /\ Utf8Decode(PercentDecode(q.v)) = call.city
            /\ Len(UrlParams(url)) = Len(UrlParams(BuildUrl(provider, <<>>, call.kind).url))

C8_Witness ==
    /\ Requested
    /\ provider.type = "weatherapi"
    /\ call.city = <<32, 227>>
    /\ ParamValue(url, "q").v = <<"%", "2", "0", "%", "C", "3", "%", "A", "3">>

\* C9: a fetch with a valid kind performs exactly one HTTP GET on the URL it
\* assembled; a body the transport returns is returned unmodified whatever the
\* status, and a failed request or body read is returned as an error with no
\* second request.
C9_SingleGetMirrored ==
    (call.kind \in ValidKinds) =>
        /\ gets = 1
        /\ url = BuildUrl(provider, call.city, call.kind).url
        /\ pc = "awaiting" => (result = Pending /\ response = NoResponse)
        /\ pc = "idle" =>
              /\ response \in TransportOutcomes
              /\ response.kind = "body" => result = FetchOk(response.body)
              /\ response.kind # "body" =>
                    (result.state = "err" /\ result.err = "reqwest" /\ result.arg = response.kind)

C9_Witness ==
    /\ call.kind \in ValidKinds
    /\ pc = "idle"
    /\ response.kind = "body"
    /\ response.status = 404
    /\ result = FetchOk("{error}")
    /\ gets = 1

\* C10: whenever configure with a supported name reports "Provider saved" the
\* persisted config holds that name, so that load_config returns it; configure
\* with an unsupported name exits with status 1 and leaves the file unchanged.
C10_ConfigureSaves ==
    (cli.cmd = "configure") =>
        /\ cli.stdout = "Provider saved" =>
              /\ Contains(SUPPORTED_PROVIDERS, cli.arg)
              /\ load_config(configFile).ok
              /\ load_config(configFile).cfg.provider = cli.arg
        /\ ~Contains(SUPPORTED_PROVIDERS, cli.arg) =>
              /\ cli.exit = 1
              /\ cli.stdout # "Provider saved"
              /\ configFile = cli.before

(***************************************************************************)
(* One handle, constructed once, while the environment changes under it    *)
(***************************************************************************)
\* The value std::env::set_var gives a variable after construction.
ChangedEnvValue ==
    [ WEATHERAPI_KEY       |-> "wkey2",
      WEATHERAPI_BASE_URL  |-> "http://w2.test/v1",
      WEATHERAPI_LANG      |-> "fr",
      OPENWEATHER_KEY      |-> "okey2",
      OPENWEATHER_BASE_URL |-> "http://o2.test/data",
      OPENWEATHER_UNITS    |-> "imperial",
      OPENWEATHER_LANG     |-> "de" ]

\* The variables the from_env of a handle's provider reads.
OwnVars(p) ==
    IF p.type = "weatherapi" THEN {"WEATHERAPI_KEY"} \cup OptionalVars("WEATHERAPI")
    ELSE IF p.type = "openweather" THEN {"OPENWEATHER_KEY"} \cup OptionalVars("OPENWEATHER")
    ELSE {}

\* "Kyiv"
EnvCities == { <<75, 121, 105, 118>> }

EnvKinds == {"now", "tomorrow", "hourly"}

\* The one provider_factory call of a run.
Construct(name) ==
    /\ made = NotMade
    /\ ProviderFactory(name)

\* std::env::set_var(n, ..) on a variable the handle's constructor read
SetVar(n) ==
    /\ n \in OwnVars(provider)
    /\ env[n] # Some(ChangedEnvValue[n])
    /\ env' = [env EXCEPT ![n] = Some(ChangedEnvValue[n])]
    /\ UNCHANGED <<provider, made, call, pc, url, gets, response, result, configFile, cli>>

\* std::env::remove_var(n) on a variable the handle's constructor read
RemoveVar(n) ==
    /\ n \in OwnVars(provider)
    /\ env[n].some
    /\ env' = [env EXCEPT ![n] = None]
    /\ UNCHANGED <<provider, made, call, pc, url, gets, response, result, configFile, cli>>

NextEnv ==
    \/ \E name \in {"weatherapi", "openweather"} : Construct(name)
    \/ \E n \in EnvVars : SetVar(n)
    \/ \E n \in EnvVars : RemoveVar(n)
    \/ \E city \in EnvCities, kind \in EnvKinds : GetData(city, kind)
    \/ \E o \in TransportOutcomes : Transport(o)

SpecEnv == Init /\ [][NextEnv]_vars

\* The URL carries the configuration stored in the handle.
UrlOfStoredConfig ==
    Requested =>
        /\ UrlPath(url)[1] = provider.base_url
        /\ ParamValue(url, "lang") =
              [some |-> provider.lang.some, v |-> IF provider.lang.some THEN <<provider.lang.v>> ELSE <<>>]
        /\ provider.type = "openweather" =>
              /\ ParamValue(url, "appid") = [some |-> TRUE, v |-> <<provider.api_key>>]
              /\ ParamValue(url, "units") =
                    [some |-> provider.units.some,
                     v |-> IF provider.units.some THEN <<provider.units.v>> ELSE <<>>]
        /\ provider.type = "weatherapi" =>
              /\ ParamValue(url, "key") = [some |-> TRUE, v |-> <<provider.api_key>>]
              /\ ~ParamValue(url, "units").some

\* C11: a provider's configuration is read from the environment once, at
\* construction: no get_data call, rejected, failed or successful, and no later
\* change of the environment modifies api_key, base_url, units or lang, and
\* the URL of every fetch carries the stored configuration, whatever the
\* environment holds when the fetch is made.
C11_ConfigReadOnce ==
    /\ [](UrlOfStoredConfig)
    /\ [][made.called => (provider' = provider /\ made' = made)]_vars

C11_Witness ==
    /\ Requested
    /\ result.state = "ok"
    /\ call.afterRejected
    /\ provider.type = "openweather"
    /\ provider.lang = Some("es")
    /\ ~env["OPENWEATHER_LANG"].some
    /\ ~provider.units.some
    /\ env["OPENWEATHER_UNITS"] = Some("imperial")
    /\ provider.api_key = "okey"
    /\ env["OPENWEATHER_KEY"] = Some("okey2")
    /\ ParamNames(url) = {<<"q">>, <<"appid">>, <<"lang">>}

(***************************************************************************)
(* Runs in which only `configure` writes config.json                       *)
(***************************************************************************)
NextConfigure ==
    \/ \E name \in ProviderNames, how \in WriteOutcomes : Configure(name, how)
    \/ \E city \in {None} \cup {Some(c) : c \in CliCities}, data \in Kinds, o \in TransportOutcomes :
          Get(city, data, o)
    \/ RemoveConfig

SpecConfigure == InitCli /\ [][NextConfigure]_vars

\* The names provider_factory maps to a provider, whatever the environment.
ResolvedNames ==
    { n \in ProviderNames :
        \A e \in CliEnvironments : provider_factory([provider |-> n], e).err # "Unsupported provider" }

AcceptedNames == { SUPPORTED_PROVIDERS[i] : i \in 1..Len(SUPPORTED_PROVIDERS) }

GetFailed == cli.cmd = "get" /\ cli.exit # 0

\* C12 as stated: configure accepts exactly the names provider_factory maps,
\* so a get never fails with the unsupported-provider error; it fails only on a
\* missing config, a missing credential, an unsupported kind or a transport
\* error.
C12_OnlyListedFailures ==
    /\ AcceptedNames = ResolvedNames
    /\ GetFailed =>
          cli.stderr \in { "config.json not found", "environment variable not found",
                           "Unknown data type", "reqwest" }

\* C12, amended: configure accepts exactly the names provider_factory maps, so
\* while only configure writes config.json a get never fails with the
\* unsupported-provider error; it fails only on a missing --city, a config
\* that is missing or cannot be loaded (left empty by a failed write), a
\* missing credential, an unsupported kind or a transport error.
C12_NeverUnsupportedProvider ==
    /\ AcceptedNames = ResolvedNames
    /\ (configFile.exists /\ load_config(configFile).ok) =>
          load_config(configFile).cfg.provider \in ResolvedNames
    /\ GetFailed =>
          /\ cli.stderr # "Unsupported provider"
          /\ cli.stderr \in { "city is required", "config.json not found", "malformed json",
                              "environment variable not found", "Unknown data type", "reqwest" }
    /\ (cli.cmd = "get" /\ cli.exit = 0) => (Requested /\ load_config(configFile).ok)

C12_Witness ==
    /\ GetFailed
    /\ cli.stderr = "environment variable not found"
    /\ load_config(configFile).ok
    /\ load_config(configFile).cfg.provider = "openweather"
    /\ env["WEATHERAPI_KEY"].some

====
